---------------------------- MODULE Spec2Model ----------------------------
(***************************************************************************)
(* Model of AdRequestTracker (src/deepseek_python_20260120_74f210.py):     *)
(* the SQLite store with its three tables, process_ad_request,             *)
(* _update_behavior_patterns and the queries, with the connections each of *)
(* them opens.                                                             *)
(*                                                                         *)
(* The store is one SQLite file in rollback-journal mode.  Every call of   *)
(* sqlite3.connect opens a connection of its own; the first INSERT or      *)
(* UPDATE on a connection opens a transaction and takes the file's single  *)
(* RESERVED (writer) lock, which the connection keeps until it commits or  *)
(* is closed.  A connection that needs the lock while another one holds it *)
(* waits up to the busy timeout and then raises OperationalError           *)
(* ("database is locked").  A connection that is dropped without commit    *)
(* rolls its transaction back.  A SELECT whose cursor still has a row to   *)
(* give keeps a SHARED lock from execute to the fetch that takes its rows. *)
(* commit needs every other connection's SHARED lock gone: finding one, it *)
(* turns the writer lock into a PENDING lock, which refuses new readers as *)
(* well, and waits.  When the readers leave within the busy timeout the    *)
(* commit is made; otherwise commit raises OperationalError and the        *)
(* connection keeps the PENDING lock until it is dropped.                  *)
(*                                                                         *)
(* Calls may run in several worker processes, so their store operations    *)
(* interleave at the granularity of one SQL statement.                     *)
(*                                                                         *)
(* Time is counted in ticks, TicksPerDay ticks to a day.  A stored         *)
(* DATETIME is the text sqlite3's adapter writes and fromisoformat reads   *)
(* back; both keep the instant, which the model holds as its tick.         *)
(***************************************************************************)
EXTENDS Integers, Sequences, FiniteSets, TLC

\* ------------------------------------------------------------------ bounds
NumInvocations == 2
MaxTime == 2
TicksPerDay == 2
\* The largest octet and the longest signal list of the calls made on one
\* function alone.
MaxOctet == 255
MaxSignals == 1

\* The invocations clients make: each is one call of process_ad_request or
\* one direct call of _update_behavior_patterns.
Invocations == 1..NumInvocations
Times == 0..MaxTime

\* ------------------------------------------------------------------ values
None == [none |-> TRUE]

\* One dot-separated part of an address string: an integer literal, or text
\* that int() rejects.
Oct(n) == [isint |-> TRUE, v |-> n]
Junk == [isint |-> FALSE, v |-> 0]

AdIds == {"AID-1", "AID-2"}

\* EnvironmentSignals: the lengths of the three lists.
Signals(w, c, b) == [wifi |-> w, cell |-> c, bt |-> b]
\* The requests submitted: <<ip_address, environment_signals>>.
CallInputs ==
    { << <<Oct(192), Oct(168), Oct(1), Oct(100)>>, None >>,
      << <<Oct(192), Oct(168), Oct(1), Oct(100)>>, Signals(1, 1, 0) >>,
      << <<Oct(198), Oct(18), Oct(5), Oct(5)>>, Signals(0, 0, 0) >>,
      << <<Oct(10), Oct(0)>>, None >>,
      << <<Junk, Oct(1), Oct(1), Oct(1)>>, None >> }
\* The direct calls of _update_behavior_patterns: <<country_code, ip_address>>.
UpdateInputs ==
    { << "US", <<Oct(10), Oct(1), Oct(2), Oct(3)>> >>,
      << "EU", <<Oct(130), Oct(1), Oct(2), Oct(3)>> >> }

\* The addresses given to one heuristic alone.  Four integer parts: every
\* first octet with the least and the greatest rest, and inside the first
\* octets of datacenter_ranges the octets on both sides of each bound.
QuadIPs ==
    { <<Oct(a), Oct(r), Oct(r), Oct(r)>> : a \in 0..MaxOctet, r \in {0, 255} }
      \cup { <<Oct(a), Oct(b), Oct(c), Oct(d)>> :
                a \in {100, 192, 198},
                b \in {0, 17, 18, 19, 20, 63, 64, 127, 128},
                c \in {0, 1, 2, 3, 255},
                d \in {0, 255} }
      \cup { <<Oct(8), Oct(8), Oct(8), Oct(8)>>,
             <<Oct(198), Oct(18), Oct(5), Oct(5)>>,
             <<Oct(192), Oct(168), Oct(1), Oct(100)>> }
\* Strings that are no dotted quad of integers: too few or too many parts, or
\* a part int() rejects.
MalformedIPs ==
    { << Junk >>,
      << Oct(10), Oct(0) >>,
      << Oct(10), Oct(0), Oct(1) >>,
      << Oct(198), Oct(18), Oct(5), Oct(5), Oct(9) >>,
      << Junk, Oct(1), Oct(1), Oct(1) >>,
      << Oct(10), Junk, Oct(1), Oct(1) >>,
      << Oct(10), Oct(1), Oct(1), Junk >> }
DirectIPs == QuadIPs \cup MalformedIPs
\* The EnvironmentSignals given to geolocate_with_signals alone.
DirectSignals ==
    { Signals(w, c, b) : w \in 0..MaxSignals, c \in 0..MaxSignals,
                         b \in 0..MaxSignals }

\* The criteria find_similar_devices is asked with: <<ip_address,
\* country_code>>.  A criterion that is not given, None, is the empty
\* sequence or the empty text here.
SimilarInputs ==
    { << <<>>, "" >>, << <<>>, "ASIA" >>, << <<>>, "US" >>,
      << <<Oct(192), Oct(168), Oct(1), Oct(100)>>, "" >>,
      << <<Oct(10)>>, "" >> }

\* The periods generate_report is asked for: <<start_date, end_date>>.
ReportRanges == { <<0, MaxTime>>, <<1, 1>> }

\* What the geolocation service can answer to one request: 200 with a
\* location and an accuracy (the body the service documents), another
\* status, or a failed or timed-out request.
GeoData == [lat |-> 40, lng |-> 3, accuracy |-> 25]
GeoOutcomes == {"ok", "status", "error"}

\* --------------------------------------------------------- pure functions
\* int(part) raises ValueError on text that is no integer literal.
IsInt(part) == part.isint

\* "" when the call returns, else the exception it raises.
estimate_country_raises(ip) ==
    IF Len(ip) = 4 /\ ~IsInt(ip[1]) THEN "ValueError" ELSE ""

\* The bands with the loopback octet 127 counted to the first one.
estimate_country_with_127_in_us(ip) ==
    IF Len(ip) = 4
    THEN LET first_octet == ip[1].v
         IN  IF 1 <= first_octet /\ first_octet <= 127 THEN "US"
             ELSE IF 128 <= first_octet /\ first_octet <= 191 THEN "EU"
             ELSE IF 192 <= first_octet /\ first_octet <= 223 THEN "ASIA"
             ELSE "UNKNOWN"
    ELSE "UNKNOWN"

estimate_country_from_ip(ip) ==
    IF Len(ip) = 4
    THEN LET first_octet == ip[1].v
         IN  IF 1 <= first_octet /\ first_octet <= 126 THEN "US"
             ELSE IF 128 <= first_octet /\ first_octet <= 191 THEN "EU"
             ELSE IF 192 <= first_octet /\ first_octet <= 223 THEN "ASIA"
             ELSE "UNKNOWN"
    ELSE "UNKNOWN"

\* parts[0..3] are read and converted in order: the first one that is missing
\* raises IndexError, the first one that is no integer raises ValueError.
ip_to_int_raises(ip) ==
    LET bad == { i \in 1..4 : i > Len(ip) \/ ~IsInt(ip[i]) }
    IN  IF bad = {} THEN ""
        ELSE LET i == CHOOSE j \in bad : \A k \in bad : j <= k
             IN  IF i > Len(ip) THEN "IndexError" ELSE "ValueError"

\* (p0 << 24) + (p1 << 16) + (p2 << 8) + p3, an unbounded Python int, kept as
\* the pair <<n \div 65536, n % 65536>> of its high and low halves.
ip_to_int(ip) ==
    LET hi == ip[1].v * 256 + ip[2].v
        lo == ip[3].v * 256 + ip[4].v
    IN  << hi + (lo \div 65536), lo % 65536 >>

\* m <= n on such pairs
IntLeq(m, n) == m[1] < n[1] \/ (m[1] = n[1] /\ m[2] <= n[2])

datacenter_ranges ==
    { << <<Oct(192), Oct(0), Oct(2), Oct(0)>>, <<Oct(192), Oct(0), Oct(2), Oct(255)>> >>,
      << <<Oct(198), Oct(18), Oct(0), Oct(0)>>, <<Oct(198), Oct(19), Oct(255), Oct(255)>> >>,
      << <<Oct(100), Oct(64), Oct(0), Oct(0)>>, <<Oct(100), Oct(127), Oct(255), Oct(255)>> >> }

detect_vpn_proxy(ip) ==
    \E r \in datacenter_ranges :
        IntLeq(ip_to_int(r[1]), ip_to_int(ip)) /\ IntLeq(ip_to_int(ip), ip_to_int(r[2]))

\* '.'.join(ip_address.split('.')[:2])
ip_prefix_of(ip) == SubSeq(ip, 1, IF Len(ip) < 2 THEN Len(ip) ELSE 2)

\* (a - b).days of two datetimes: the floor of the difference in days.
Days(a, b) == (a - b) \div TicksPerDay

\* _generate_request_id: the first 16 hex digits of the SHA-256 of the
\* advertising id, the address and the clock reading.  Equal inputs give equal
\* ids; the model keeps the inputs themselves.
generate_request_id(advertising_id, ip, t) ==
    [aid |-> advertising_id, ip |-> ip, at |-> t]

\* The payload geolocate_with_signals builds: the non-empty lists.
payload_of(signals) ==
    { k \in {"wifi", "cell", "bt"} : signals[k] > 0 }


\* ------------------------------------------------------------------- state
VARIABLES
    google_api_key,     \* TRUE when the tracker was built with a credential
    now,                \* the last reading of datetime.utcnow()
    ad_requests,        \* committed rows of table ad_requests
    location_history,   \* committed rows of table location_history, by id
    behavior_patterns,  \* committed row of table behavior_patterns per key
    writer,             \* the connection holding the file's RESERVED lock
    calls,              \* the process_ad_request call of each invocation
    frames,             \* the _update_behavior_patterns call of each
                        \* invocation: made by its process_ad_request (line
                        \* 237), or by the client
    direct_call         \* a call of one heuristic or of
                        \* geolocate_with_signals on its own

vars == << google_api_key, now, ad_requests, location_history,
           behavior_patterns, writer, calls, frames, direct_call >>

NoConn == <<"none", 0>>
\* conn of process_ad_request (line 188) and of _update_behavior_patterns
\* (line 289)
FacadeConnAutocommit(c) == NoConn
FacadeConn(c) == <<"facade", c>>
UpdateConn(f) == <<"update", f>>

IdleCall ==
    [ pc |-> "idle", advertising_id |-> "", ip_address |-> <<>>,
      environment_signals |-> None, request_id |-> None, timestamp |-> 0,
      geolocation_data |-> None, net_requests |-> 0, country_code |-> "",
      is_vpn |-> FALSE, txn_obs |-> None, txn_loc |-> None, exc |-> "" ]

IdleFrame ==
    [ pc |-> "idle", advertising_id |-> "", timestamp |-> 0,
      country_code |-> "", ip_address |-> <<>>, existing |-> None,
      pending |-> None, exc |-> "" ]

\* No function has been called on its own.  `returned` holds the value a
\* call returned as [v |-> value], None while it has returned nothing.
IdleDirect ==
    [ pc |-> "idle", fn |-> "", ip_address |-> <<>>,
      environment_signals |-> None, start_date |-> 0, end_date |-> 0,
      advertising_id |-> "", country_code |-> "", rows |-> {},
      stats |-> None, returned |-> None, exc |-> "", net_requests |-> 0 ]

Init ==
    /\ google_api_key \in BOOLEAN
    /\ now = 0
    /\ ad_requests = {}
    /\ location_history = <<>>
    /\ behavior_patterns = [a \in AdIds |-> None]
    /\ writer = NoConn
    /\ calls = [c \in Invocations |-> IdleCall]
    /\ frames = [f \in Invocations |-> IdleFrame]
    /\ direct_call = IdleDirect

\* Invocation k is a call of process_ad_request; it has been started.
IsCall(k) == calls[k].pc # "idle"
Started(k) == calls[k].pc # "idle" \/ frames[k].pc # "idle"

\* ------------------------------------------------------- geolocation client
\* A client that posts whenever it has a credential, whatever the payload.
geolocate_posts_any_payload(signals) == google_api_key

\* geolocate_with_signals up to the request: TRUE when a request is posted.
geolocate_posts(signals) ==
    /\ google_api_key
    /\ payload_of(signals) # {}

\* What geolocate_with_signals returns for the service's answer: the body of
\* a 200 response, None for any other status and for any exception.
geolocate_result(outcome) ==
    IF outcome = "ok" THEN GeoData ELSE None

\* ------------------------------------------------------ process_ad_request
\* Lines 170-176: the request id and the timestamp are taken, then the
\* geolocation is awaited when signals and a credential are present.  The
\* clock is read twice: t_id is the reading of line 118, which goes into the
\* request id, and t the reading of line 171, the timestamp.  Nothing orders
\* the readings of datetime.utcnow(), within a call or between calls.
Begin(c, advertising_id, ip, signals, t_id, t) ==
    /\ ~Started(c)
    /\ \A b \in Invocations : b < c => Started(b)
    /\ now' = t
    /\ LET posts == signals # None /\ google_api_key /\ geolocate_posts(signals)
       IN  calls' = [calls EXCEPT ![c] =
              [ @ EXCEPT !.pc = IF posts THEN "await_geo" ELSE "store",
                         !.advertising_id = advertising_id,
                         !.ip_address = ip,
                         !.environment_signals = signals,
                         !.request_id = generate_request_id(advertising_id, ip, t_id),
                         !.timestamp = t,
                         !.geolocation_data = None,
                         !.net_requests = IF posts THEN 1 ELSE 0 ]]
    /\ UNCHANGED << direct_call, google_api_key, ad_requests, location_history,
                    behavior_patterns, writer, frames >>

\* Lines 149-162: the awaited request completes.
GeoRespond(c, outcome) ==
    /\ calls[c].pc = "await_geo"
    /\ calls' = [calls EXCEPT ![c].pc = "store",
                              ![c].geolocation_data = geolocate_result(outcome)]
    /\ UNCHANGED << direct_call, google_api_key, now, ad_requests, location_history,
                    behavior_patterns, writer, frames >>

\* Lines 179-182: the exception the two heuristics raise, "" when none.
heuristics_raise(ip) ==
    IF estimate_country_raises(ip) # "" THEN estimate_country_raises(ip)
    ELSE ip_to_int_raises(ip)

HeuristicsRaise(c) ==
    /\ calls[c].pc = "store"
    /\ heuristics_raise(calls[c].ip_address) # ""
    /\ calls' = [calls EXCEPT ![c].pc = "raised",
                              ![c].exc = heuristics_raise(calls[c].ip_address)]
    /\ UNCHANGED << direct_call, google_api_key, now, ad_requests, location_history,
                    behavior_patterns, writer, frames >>

\* The row of lines 191-218 (the columns the claims read).
observation_row(call, country_code, is_vpn) ==
    [ request_id |-> call.request_id,
      advertising_id |-> call.advertising_id,
      ip_address |-> call.ip_address,
      request_timestamp |-> call.timestamp,
      country_code |-> country_code,
      estimated_lat |-> IF call.geolocation_data # None
                        THEN [v |-> call.geolocation_data.lat] ELSE None,
      estimated_lng |-> IF call.geolocation_data # None
                        THEN [v |-> call.geolocation_data.lng] ELSE None,
      accuracy_radius |-> IF call.geolocation_data # None
                          THEN [v |-> call.geolocation_data.accuracy] ELSE None,
      wifi_aps_count |-> IF call.environment_signals # None
                         THEN call.environment_signals.wifi ELSE 0,
      cell_towers_count |-> IF call.environment_signals # None
                            THEN call.environment_signals.cell ELSE 0,
      is_vpn |-> is_vpn ]

\* The row of lines 222-234.
location_row(call) ==
    [ advertising_id |-> call.advertising_id,
      request_id |-> call.request_id,
      latitude |-> call.geolocation_data.lat,
      longitude |-> call.geolocation_data.lng,
      accuracy |-> call.geolocation_data.accuracy,
      timestamp |-> call.timestamp,
      source |-> "google_geolocation_api" ]

\* A call that never writes its location-history row.
writes_location_never(call) == FALSE

\* Whether the location-history INSERT of line 221 runs.
writes_location(call) == call.geolocation_data # None

\* A table whose request_id is no key: no INSERT is refused.
duplicate_request_id_unchecked(request_id) == FALSE

\* request_id TEXT PRIMARY KEY (line 58): the INSERT of line 191 is refused
\* when the table holds a row with the id.
duplicate_request_id(request_id) ==
    \E r \in ad_requests : r.request_id = request_id

\* Lines 179-237 when the writer lock is free: the heuristics, the INSERT into
\* ad_requests on a new connection (which takes the lock, and fails on a
\* request id the table already holds), the INSERT into location_history, and
\* the call of _update_behavior_patterns.
StoreObservation(c) ==
    LET call == calls[c]
        country_code == estimate_country_from_ip(call.ip_address)
        is_vpn == detect_vpn_proxy(call.ip_address)
        duplicate == duplicate_request_id(call.request_id)
    IN  /\ call.pc = "store"
        /\ heuristics_raise(call.ip_address) = ""
        /\ writer = NoConn
        /\ writer' = FacadeConn(c)
        /\ IF duplicate
           THEN /\ calls' = [calls EXCEPT ![c].pc = "unwinding",
                                          ![c].country_code = country_code,
                                          ![c].is_vpn = is_vpn,
                                          ![c].exc = "IntegrityError"]
                /\ frames' = frames
           ELSE /\ calls' = [calls EXCEPT
                     ![c].pc = "in_update",
                     ![c].country_code = country_code,
                     ![c].is_vpn = is_vpn,
                     ![c].txn_obs = observation_row(call, country_code, is_vpn),
                     ![c].txn_loc = IF writes_location(call)
                                    THEN location_row(call) ELSE None]
                /\ frames' = [frames EXCEPT ![c] =
                     [ IdleFrame EXCEPT !.pc = "select",
                                        !.advertising_id = call.advertising_id,
                                        !.timestamp = call.timestamp,
                                        !.country_code = country_code,
                                        !.ip_address = call.ip_address ]]
        /\ UNCHANGED << direct_call, google_api_key, now, ad_requests, location_history,
                        behavior_patterns >>

\* Line 191 when another connection keeps the writer lock for longer than
\* the busy timeout: OperationalError, before anything is written.
StoreBusy(c) ==
    /\ calls[c].pc = "store"
    /\ heuristics_raise(calls[c].ip_address) = ""
    /\ writer # NoConn
    /\ calls' = [calls EXCEPT
          ![c].pc = "raised",
          ![c].country_code = estimate_country_from_ip(calls[c].ip_address),
          ![c].is_vpn = detect_vpn_proxy(calls[c].ip_address),
          ![c].exc = "OperationalError"]
    /\ UNCHANGED << direct_call, google_api_key, now, ad_requests, location_history,
                    behavior_patterns, writer, frames >>

\* ------------------------------------------------ _update_behavior_patterns
\* Column values of behavior_patterns as Python reads them back: REAL as a
\* float (here the fraction num/den), TEXT as a str, DATETIME as the text of
\* a datetime.  A comma-joined text is kept as the set of its tokens, which is
\* what set(text.split(',')) makes of it; the empty text has no token.
Real(num, den) == [type |-> "float", num |-> num, den |-> den]
Text(tokens) == [type |-> "str", tokens |-> tokens]
DateTime(t) == [type |-> "datetime", t |-> t]
CountryToken(country_code) == [cc |-> country_code]
PrefixToken(ip) == [prefix |-> ip_prefix_of(ip)]

\* bool(value) of a column value
Truthy(value) ==
    IF value.type = "float" THEN value.num # 0
    ELSE IF value.type = "str" THEN value.tokens # {}
    ELSE TRUE

\* A table whose two texts are at the indices 2 and 3.
ColumnWithTextsAt2And3(row, i) ==
    CASE i = 0 -> row.advertising_id
      [] i = 1 -> row.total_requests
      [] i = 2 -> row.common_countries
      [] i = 3 -> row.common_ip_prefixes
      [] i = 4 -> row.avg_requests_per_day
      [] i = 5 -> row.last_seen
      [] i = 6 -> row.first_seen

\* existing[i] of a row fetched with SELECT *: the columns in the order of
\* CREATE TABLE behavior_patterns (lines 97-105).
Column(row, i) ==
    CASE i = 0 -> row.advertising_id
      [] i = 1 -> row.total_requests
      [] i = 2 -> row.avg_requests_per_day
      [] i = 3 -> row.common_countries
      [] i = 4 -> row.common_ip_prefixes
      [] i = 5 -> row.last_seen
      [] i = 6 -> row.first_seen

\* Line 300: the divisor of the average.
avg_divisor(existing, timestamp) ==
    Days(timestamp, Column(existing, 5).t) + 1

\* set(existing[i].split(',')) if existing[i] else set()
split_set(value) == IF Truthy(value) THEN value.tokens ELSE {}

\* The exception lines 295-308 raise for the row read, "" when none: the
\* division of line 300, then str.split on the values of lines 303 and 307.
update_raises(existing, timestamp) ==
    IF existing = None THEN ""
    ELSE IF avg_divisor(existing, timestamp) = 0 THEN "ZeroDivisionError"
    ELSE IF Truthy(Column(existing, 2)) /\ Column(existing, 2).type # "str"
         THEN "AttributeError"
    ELSE IF Truthy(Column(existing, 3)) /\ Column(existing, 3).type # "str"
         THEN "AttributeError"
    ELSE ""

\* Lines 299-325: the row the UPDATE leaves, from the row `existing` that was
\* read and the row `current` the table holds when the statement runs.
updated_row(current, existing, timestamp, country_code, ip) ==
    LET total == Column(existing, 1) + 1
        avg_requests == Real(total, avg_divisor(existing, timestamp))
        countries == split_set(Column(existing, 2)) \cup {CountryToken(country_code)}
        ip_prefixes == split_set(Column(existing, 3)) \cup {PrefixToken(ip)}
    IN  [ current EXCEPT !.total_requests = total,
                         !.avg_requests_per_day = avg_requests,
                         !.common_countries = Text(countries),
                         !.common_ip_prefixes = Text(ip_prefixes),
                         !.last_seen = DateTime(timestamp) ]

\* Lines 328-341: the row of a new device.
inserted_row(advertising_id, timestamp, country_code, ip) ==
    [ advertising_id |-> advertising_id,
      total_requests |-> 1,
      avg_requests_per_day |-> Real(1, 1),
      common_countries |-> Text({CountryToken(country_code)}),
      common_ip_prefixes |-> Text({PrefixToken(ip)}),
      last_seen |-> DateTime(timestamp),
      first_seen |-> DateTime(timestamp) ]

\* An exception leaves frame f.  The connections of the frame, and of the
\* process_ad_request call it belongs to, stay open until the stack unwinds.
RaiseInFrame(f, e) ==
    /\ frames' = [frames EXCEPT
          ![f].pc = IF IsCall(f) THEN "raised" ELSE "unwinding",
          ![f].exc = e]
    /\ calls' = IF IsCall(f)
                THEN [calls EXCEPT ![f].pc = "unwinding", ![f].exc = e]
                ELSE calls

\* _update_behavior_patterns called on its own.
CallUpdate(u, advertising_id, timestamp, country_code, ip) ==
    /\ ~Started(u)
    /\ \A v \in Invocations : v < u => Started(v)
    /\ frames' = [frames EXCEPT ![u] =
          [ IdleFrame EXCEPT !.pc = "select",
                             !.advertising_id = advertising_id,
                             !.timestamp = timestamp,
                             !.country_code = country_code,
                             !.ip_address = ip ]]
    /\ UNCHANGED << direct_call, google_api_key, now, ad_requests, location_history,
                    behavior_patterns, writer, calls >>

\* The connection of frame f keeps a SHARED lock: its SELECT (line 292) found
\* the row and fetchone (line 293) has not taken it yet.
FrameHoldsShared(f) == frames[f].pc = "fetch" /\ frames[f].existing # None

\* The rows of ad_requests a query of generate_report reads: those with
\* request_timestamp BETWEEN start_date AND end_date.
report_rows(start_date, end_date) ==
    { r \in ad_requests : /\ start_date <= r.request_timestamp
                          /\ r.request_timestamp <= end_date }

\* The rows of ad_requests get_device_history reads (lines 352-357); the
\* model leaves the limit at its default, which is above the rows a store
\* has here.
history_rows(advertising_id) ==
    { r \in ad_requests : r.advertising_id = advertising_id }

\* ip_address LIKE 'a.b.%' (lines 375-377): the stored address has the two
\* parts a and b and a part after them.
like_prefix(stored, ip_address) ==
    /\ Len(stored) >= 3
    /\ stored[1] = ip_address[1]
    /\ stored[2] = ip_address[2]

\* The rows of ad_requests find_similar_devices groups (lines 372-387), each
\* criterion applied when it is given.  The rows of the model have no device
\* columns: the device_model criterion is not given.
similar_rows(ip_address, country_code) ==
    { r \in ad_requests :
         /\ ip_address # <<>> => like_prefix(r.ip_address, ip_address)
         /\ country_code # "" => r.country_code = country_code }

\* A query keeps a SHARED lock from the execute of a SELECT that has a row
\* to give until the fetch takes its rows; direct_call.rows are the rows of
\* the SELECT last executed.  generate_report: the SELECT of line 406 always
\* has its one row of counts, until fetchone (line 416); the SELECTs of lines
\* 419 and 431 until fetchall (lines 429, 441).
ReportHoldsShared ==
    /\ direct_call.fn = "generate_report"
    /\ \/ direct_call.pc = "fetch"
       \/ /\ direct_call.pc \in {"fetch_countries", "fetch_devices"}
          /\ direct_call.rows # {}

\* get_device_history between lines 352 and 359, find_similar_devices
\* between lines 389 and 390.
QueryHoldsShared ==
    /\ direct_call.fn \in {"get_device_history", "find_similar_devices"}
    /\ direct_call.pc = "fetch"
    /\ direct_call.rows # {}

\* A connection other than that of frame f keeps a SHARED lock.
OtherHoldsShared(f) ==
    \/ ReportHoldsShared
    \/ QueryHoldsShared
    \/ \E g \in Invocations \ {f} : FrameHoldsShared(g)

\* The connection of frame f keeps the writer lock as a PENDING lock: its
\* commit waits for the readers to leave, or has failed and the connection
\* is not dropped yet.
FrameHoldsPending(f) ==
    /\ writer = UpdateConn(f)
    /\ \/ frames[f].pc = "committing"
       \/ frames[f].exc = "OperationalError"

\* A new reader is refused: some connection holds a PENDING lock.
ReadersRefused == \E g \in Invocations : FrameHoldsPending(g)

\* Lines 289-292: the SELECT on a connection of its own.  It raises
\* OperationalError when readers are refused for longer than the busy
\* timeout; otherwise it reads the committed row.
UpdSelect(f) ==
    /\ frames[f].pc = "select"
    /\ IF ReadersRefused
       THEN RaiseInFrame(f, "OperationalError")
       ELSE /\ frames' = [frames EXCEPT
                  ![f].pc = "fetch",
                  ![f].existing = behavior_patterns[frames[f].advertising_id]]
            /\ calls' = calls
    /\ UNCHANGED << direct_call, google_api_key, now, ad_requests, location_history,
                    behavior_patterns, writer >>

\* Line 293: fetchone takes the row, if any, and the SHARED lock is gone.
UpdFetch(f) ==
    /\ frames[f].pc = "fetch"
    /\ frames' = [frames EXCEPT ![f].pc = "write"]
    /\ UNCHANGED << direct_call, google_api_key, now, ad_requests, location_history,
                    behavior_patterns, writer, calls >>

\* A location_history row with its AUTOINCREMENT id.
with_id(row, id) ==
    [ id |-> id, advertising_id |-> row.advertising_id,
      request_id |-> row.request_id, latitude |-> row.latitude,
      longitude |-> row.longitude, accuracy |-> row.accuracy,
      timestamp |-> row.timestamp, source |-> row.source ]

\* Whether the connection of frame f can take the writer lock: no other
\* connection holds it.  The connection process_ad_request opened (line 188)
\* is another connection, and holds it from its INSERT on.
CanWrite(f) == writer = NoConn

\* Lines 343-344, the commit of the profile row; and, when process_ad_request
\* made the call, its lines 239-248: the commit of its own rows and the return.
CommitAndReturn(f, row) ==
    /\ behavior_patterns' = [behavior_patterns EXCEPT ![frames[f].advertising_id] = row]
    /\ frames' = [frames EXCEPT ![f].pc = "done", ![f].pending = row]
    /\ writer' = NoConn
    /\ IF IsCall(f)
       THEN /\ ad_requests' = ad_requests \cup {calls[f].txn_obs}
            /\ location_history' =
                  IF calls[f].txn_loc # None
                  THEN Append(location_history,
                              with_id(calls[f].txn_loc, Len(location_history) + 1))
                  ELSE location_history
            /\ calls' = [calls EXCEPT ![f].pc = "returned"]
       ELSE UNCHANGED << ad_requests, location_history, calls >>

\* Lines 295-341, after the SELECT.  Lines 297-308 may raise before any
\* statement runs.  The UPDATE or INSERT then needs the writer lock: when
\* another connection keeps it for longer than the busy timeout the statement
\* raises OperationalError (the step is taken; waiting is not taking it).
\* With the lock, the INSERT fails on a key the table holds by now, and
\* otherwise the row is written in the connection's transaction, which keeps
\* the lock until line 343 commits.
UpdWrite(f) ==
    LET fr == frames[f]
        current == behavior_patterns[fr.advertising_id]
        e == update_raises(fr.existing, fr.timestamp)
    IN  /\ fr.pc = "write"
        /\ IF e # ""
           THEN /\ RaiseInFrame(f, e)
                /\ UNCHANGED << ad_requests, location_history,
                                behavior_patterns, writer >>
           ELSE IF ~CanWrite(f)
           THEN /\ RaiseInFrame(f, "OperationalError")
                /\ UNCHANGED << ad_requests, location_history,
                                behavior_patterns, writer >>
           ELSE IF fr.existing = None /\ current # None
           THEN /\ RaiseInFrame(f, "IntegrityError")
                /\ writer' = UpdateConn(f)
                /\ UNCHANGED << ad_requests, location_history,
                                behavior_patterns >>
           ELSE /\ frames' = [frames EXCEPT
                      ![f].pc = "commit",
                      ![f].pending =
                         IF fr.existing = None
                         THEN inserted_row(fr.advertising_id, fr.timestamp,
                                           fr.country_code, fr.ip_address)
                         ELSE updated_row(current, fr.existing, fr.timestamp,
                                          fr.country_code, fr.ip_address)]
                /\ writer' = UpdateConn(f)
                /\ UNCHANGED << ad_requests, location_history,
                                behavior_patterns, calls >>
        /\ UNCHANGED << direct_call, google_api_key, now >>

\* Line 343, conn.commit() is entered.  With no other connection reading,
\* the row written by line 310 or 328 is durable, the writer lock is free
\* and the call returns.  With a reader, the connection takes the PENDING
\* lock, which refuses new readers, and waits for the readers it found.
UpdCommit(f) ==
    /\ frames[f].pc = "commit"
    /\ IF OtherHoldsShared(f)
       THEN /\ frames' = [frames EXCEPT ![f].pc = "committing"]
            /\ UNCHANGED << ad_requests, location_history,
                            behavior_patterns, writer, calls >>
       ELSE CommitAndReturn(f, frames[f].pending)
    /\ UNCHANGED << direct_call, google_api_key, now >>

\* Lines 343-344, the wait of conn.commit() ends.  The readers have left:
\* the commit is made and the call returns.  Or a reader is still there when
\* the busy timeout has passed: OperationalError is raised, nothing is
\* committed and the connection keeps its lock.
UpdCommitWait(f) ==
    /\ frames[f].pc = "committing"
    /\ IF OtherHoldsShared(f)
       THEN /\ RaiseInFrame(f, "OperationalError")
            /\ UNCHANGED << ad_requests, location_history,
                            behavior_patterns, writer >>
       ELSE CommitAndReturn(f, frames[f].pending)
    /\ UNCHANGED << direct_call, google_api_key, now >>

\* The exception has left the call: its connections are dropped, which rolls
\* back what they had not committed and frees the writer lock they held.
Unwind(k) ==
    /\ IF IsCall(k) THEN calls[k].pc = "unwinding"
                         ELSE frames[k].pc = "unwinding"
    /\ writer' = IF writer \in {FacadeConn(k), UpdateConn(k)} THEN NoConn ELSE writer
    /\ calls' = IF IsCall(k)
                THEN [calls EXCEPT ![k].pc = "raised",
                                   ![k].txn_obs = None,
                                   ![k].txn_loc = None]
                ELSE calls
    /\ frames' = IF ~IsCall(k)
                 THEN [frames EXCEPT ![k].pc = "raised"]
                 ELSE frames
    /\ UNCHANGED << direct_call, google_api_key, now, ad_requests, location_history,
                    behavior_patterns >>

\* ------------------------------------------------- functions called alone
\* _estimate_country_from_ip(ip), lines 250-263.
EstimateCountry(ip) ==
    /\ direct_call.pc = "idle"
    /\ direct_call' =
          IF estimate_country_raises(ip) # ""
          THEN [ IdleDirect EXCEPT !.pc = "raised",
                                   !.fn = "_estimate_country_from_ip",
                                   !.ip_address = ip,
                                   !.exc = estimate_country_raises(ip) ]
          ELSE [ IdleDirect EXCEPT !.pc = "returned",
                                   !.fn = "_estimate_country_from_ip",
                                   !.ip_address = ip,
                                   !.returned = [v |-> estimate_country_from_ip(ip)] ]
    /\ UNCHANGED << google_api_key, now, ad_requests, location_history,
                    behavior_patterns, writer, calls, frames >>

\* _detect_vpn_proxy(ip), lines 265-279: line 274 converts the address
\* before any range is looked at.
DetectVpnProxy(ip) ==
    /\ direct_call.pc = "idle"
    /\ direct_call' =
          IF ip_to_int_raises(ip) # ""
          THEN [ IdleDirect EXCEPT !.pc = "raised",
                                   !.fn = "_detect_vpn_proxy",
                                   !.ip_address = ip,
                                   !.exc = ip_to_int_raises(ip) ]
          ELSE [ IdleDirect EXCEPT !.pc = "returned",
                                   !.fn = "_detect_vpn_proxy",
                                   !.ip_address = ip,
                                   !.returned = [v |-> detect_vpn_proxy(ip)] ]
    /\ UNCHANGED << google_api_key, now, ad_requests, location_history,
                    behavior_patterns, writer, calls, frames >>

\* geolocate_with_signals(signals) as the /geolocate endpoint calls it (line
\* 523), up to the request: lines 127-151.
Geolocate(signals) ==
    /\ direct_call.pc = "idle"
    /\ direct_call' =
          IF geolocate_posts(signals)
          THEN [ IdleDirect EXCEPT !.pc = "await_geo",
                                   !.fn = "geolocate_with_signals",
                                   !.environment_signals = signals,
                                   !.net_requests = 1 ]
          ELSE [ IdleDirect EXCEPT !.pc = "returned",
                                   !.fn = "geolocate_with_signals",
                                   !.environment_signals = signals,
                                   !.returned = [v |-> None] ]
    /\ UNCHANGED << google_api_key, now, ad_requests, location_history,
                    behavior_patterns, writer, calls, frames >>

\* Lines 151-162: the request completes and the call returns.
GeolocateRespond(outcome) ==
    /\ direct_call.pc = "await_geo"
    /\ direct_call' = [ direct_call EXCEPT
                           !.pc = "returned",
                           !.returned = [v |-> geolocate_result(outcome)] ]
    /\ UNCHANGED << google_api_key, now, ad_requests, location_history,
                    behavior_patterns, writer, calls, frames >>

\* generate_report(start_date, end_date), lines 398-414: its first SELECT,
\* which counts the rows of ad_requests between the two dates (the other
\* figures of the report are left out).  It raises OperationalError when
\* readers are refused for longer than the busy timeout.
GenerateReport(start_date, end_date) ==
    /\ direct_call.pc = "idle"
    /\ direct_call' =
          IF ReadersRefused
          THEN [ IdleDirect EXCEPT !.pc = "raised",
                                   !.fn = "generate_report",
                                   !.start_date = start_date,
                                   !.end_date = end_date,
                                   !.exc = "OperationalError" ]
          ELSE [ IdleDirect EXCEPT
                   !.pc = "fetch",
                   !.fn = "generate_report",
                   !.start_date = start_date,
                   !.end_date = end_date,
                   !.stats = [total_requests |->
                      Cardinality(report_rows(start_date, end_date))] ]
    /\ UNCHANGED << google_api_key, now, ad_requests, location_history,
                    behavior_patterns, writer, calls, frames >>

\* Line 416: fetchone takes the row of counts and the SHARED lock is gone.
ReportFetch ==
    /\ direct_call.fn = "generate_report"
    /\ direct_call.pc = "fetch"
    /\ direct_call' = [ direct_call EXCEPT !.pc = "select_countries" ]
    /\ UNCHANGED << google_api_key, now, ad_requests, location_history,
                    behavior_patterns, writer, calls, frames >>

\* Lines 419-427 and 431-439: the SELECT of the top countries, then of the
\* most active devices.  Each raises OperationalError when readers are
\* refused for longer than the busy timeout.
ReportSelect ==
    /\ direct_call.fn = "generate_report"
    /\ direct_call.pc \in {"select_countries", "select_devices"}
    /\ direct_call' =
          IF ReadersRefused
          THEN [ direct_call EXCEPT !.pc = "raised",
                                    !.exc = "OperationalError" ]
          ELSE [ direct_call EXCEPT
                   !.pc = IF direct_call.pc = "select_countries"
                          THEN "fetch_countries" ELSE "fetch_devices",
                   !.rows = report_rows(direct_call.start_date,
                                        direct_call.end_date) ]
    /\ UNCHANGED << google_api_key, now, ad_requests, location_history,
                    behavior_patterns, writer, calls, frames >>

\* Line 429, and lines 441-457: fetchall takes the rows of the SELECT before
\* it; after the second one the connection is closed and the report
\* returned.
ReportFetchAll ==
    /\ direct_call.fn = "generate_report"
    /\ direct_call.pc \in {"fetch_countries", "fetch_devices"}
    /\ direct_call' =
          IF direct_call.pc = "fetch_countries"
          THEN [ direct_call EXCEPT !.pc = "select_devices", !.rows = {} ]
          ELSE [ direct_call EXCEPT !.pc = "returned", !.rows = {},
                                    !.returned = [v |-> direct_call.stats] ]
    /\ UNCHANGED << google_api_key, now, ad_requests, location_history,
                    behavior_patterns, writer, calls, frames >>

\* The lists that hold each element of S once, by descending key[element]
\* (ORDER BY ... DESC, lines 355 and 387); the order
\* of elements of equal key is SQLite's to choose.
Descending(S, key) ==
    { s \in [1..Cardinality(S) -> S] :
         /\ \A i, j \in 1..Cardinality(S) : i # j => s[i] # s[j]
         /\ \A i, j \in 1..Cardinality(S) : i < j => key[s[i]] >= key[s[j]] }

\* get_device_history(advertising_id), lines 348-357: the SELECT.  It raises
\* OperationalError when readers are refused for longer than the busy
\* timeout.
GetDeviceHistory(advertising_id) ==
    /\ direct_call.pc = "idle"
    /\ direct_call' =
          IF ReadersRefused
          THEN [ IdleDirect EXCEPT !.pc = "raised",
                                   !.fn = "get_device_history",
                                   !.advertising_id = advertising_id,
                                   !.exc = "OperationalError" ]
          ELSE [ IdleDirect EXCEPT !.pc = "fetch",
                                   !.fn = "get_device_history",
                                   !.advertising_id = advertising_id,
                                   !.rows = history_rows(advertising_id) ]
    /\ UNCHANGED << google_api_key, now, ad_requests, location_history,
                    behavior_patterns, writer, calls, frames >>

\* Lines 359-362: fetchall takes the rows, latest first; the connection is
\* closed and the list returned.
DeviceHistoryFetch ==
    /\ direct_call.fn = "get_device_history"
    /\ direct_call.pc = "fetch"
    /\ \E requests \in Descending(direct_call.rows,
                                   [r \in direct_call.rows |-> r.request_timestamp]) :
          direct_call' = [ direct_call EXCEPT !.pc = "returned", !.rows = {},
                                              !.returned = [v |-> requests] ]
    /\ UNCHANGED << google_api_key, now, ad_requests, location_history,
                    behavior_patterns, writer, calls, frames >>

\* The groups of line 387: one per advertising id, with its count of rows.
similar_devices(rows) ==
    { [ advertising_id |-> a,
        request_count |-> Cardinality({ r \in rows : r.advertising_id = a }) ] :
      a \in { r.advertising_id : r \in rows } }

\* find_similar_devices(ip_address, country_code), lines 368-389.  Line 377
\* raises IndexError on an address without a second part.  The SELECT raises
\* OperationalError when readers are refused for longer than the busy
\* timeout.
FindSimilarDevices(ip_address, country_code) ==
    /\ direct_call.pc = "idle"
    /\ direct_call' =
          IF ip_address # <<>> /\ Len(ip_address) < 2
          THEN [ IdleDirect EXCEPT !.pc = "raised",
                                   !.fn = "find_similar_devices",
                                   !.ip_address = ip_address,
                                   !.country_code = country_code,
                                   !.exc = "IndexError" ]
          ELSE IF ReadersRefused
          THEN [ IdleDirect EXCEPT !.pc = "raised",
                                   !.fn = "find_similar_devices",
                                   !.ip_address = ip_address,
                                   !.country_code = country_code,
                                   !.exc = "OperationalError" ]
          ELSE [ IdleDirect EXCEPT !.pc = "fetch",
                                   !.fn = "find_similar_devices",
                                   !.ip_address = ip_address,
                                   !.country_code = country_code,
                                   !.rows = similar_rows(ip_address, country_code) ]
    /\ UNCHANGED << google_api_key, now, ad_requests, location_history,
                    behavior_patterns, writer, calls, frames >>

\* Lines 390-393: fetchall takes the groups, the greatest count first; the
\* connection is closed and the list returned.
SimilarDevicesFetch ==
    /\ direct_call.fn = "find_similar_devices"
    /\ direct_call.pc = "fetch"
    /\ \E devices \in Descending(similar_devices(direct_call.rows),
                                  [d \in similar_devices(direct_call.rows) |->
                                      d.request_count]) :
          direct_call' = [ direct_call EXCEPT !.pc = "returned", !.rows = {},
                                              !.returned = [v |-> devices] ]
    /\ UNCHANGED << google_api_key, now, ad_requests, location_history,
                    behavior_patterns, writer, calls, frames >>

\* ------------------------------------------------------------ specification
FacadeNext ==
    \/ \E c \in Invocations, a \in AdIds, in \in CallInputs,
             t_id \in Times, t \in Times :
          Begin(c, a, in[1], in[2], t_id, t)
    \/ \E c \in Invocations, o \in GeoOutcomes : GeoRespond(c, o)
    \/ \E c \in Invocations : HeuristicsRaise(c)
    \/ \E c \in Invocations : StoreObservation(c)
    \/ \E c \in Invocations : StoreBusy(c)
    \/ \E f \in Invocations : UpdSelect(f)
    \/ \E f \in Invocations : UpdFetch(f)
    \/ \E f \in Invocations : UpdWrite(f)
    \/ \E f \in Invocations : UpdCommit(f)
    \/ \E k \in Invocations : Unwind(k)

Next ==
    \/ FacadeNext
    \/ \E u \in Invocations, a \in AdIds, t \in Times, in \in UpdateInputs :
          CallUpdate(u, a, t, in[1], in[2])

\* process_ad_request and _update_behavior_patterns, each called by clients
\* on an empty store.  No query runs beside them (UpdateSpec and
\* ExistingStoreSpec have the queries): every behaviour of Spec is one of the
\* program with its queries idle.  No commit finds a reader here, since a
\* SELECT of line 292 finds a row only after an earlier update has committed
\* it: UpdCommitWait has no step to take.
Spec == Init /\ [][Next]_vars

\* Clients call process_ad_request only, as the HTTP surface does.
FacadeSpec == Init /\ [][FacadeNext]_vars

\* Clients call _update_behavior_patterns and the three queries only.
UpdateNext ==
    \/ \E range \in ReportRanges : GenerateReport(range[1], range[2])
    \/ ReportFetch
    \/ ReportSelect
    \/ ReportFetchAll
    \/ \E u \in Invocations, a \in AdIds, t \in Times, in \in UpdateInputs :
          CallUpdate(u, a, t, in[1], in[2])
    \/ \E f \in Invocations : UpdSelect(f)
    \/ \E f \in Invocations : UpdFetch(f)
    \/ \E f \in Invocations : UpdWrite(f)
    \/ \E f \in Invocations : UpdCommit(f)
    \/ \E f \in Invocations : UpdCommitWait(f)
    \/ \E k \in Invocations : Unwind(k)
    \/ \E a \in AdIds : GetDeviceHistory(a)
    \/ DeviceHistoryFetch
    \/ \E in \in SimilarInputs : FindSimilarDevices(in[1], in[2])
    \/ SimilarDevicesFetch

UpdateSpec == Init /\ [][UpdateNext]_vars

\* The tracker is constructed on a store file that holds rows already:
\* sqlite3.connect opens the file and CREATE TABLE IF NOT EXISTS (lines
\* 56-105) keeps what its tables hold.  StoredCall is the observation the
\* file holds, of AID-1 with a location estimate, taken at tick 1; the file
\* holds its row of ad_requests, its row of location_history and the profile
\* row of its device.
StoredCall ==
    [ IdleCall EXCEPT
        !.advertising_id = "AID-1",
        !.ip_address = <<Oct(192), Oct(168), Oct(1), Oct(100)>>,
        !.environment_signals = Signals(1, 1, 0),
        !.request_id =
           generate_request_id("AID-1", <<Oct(192), Oct(168), Oct(1), Oct(100)>>, 1),
        !.timestamp = 1,
        !.geolocation_data = GeoData,
        !.country_code = "ASIA" ]

ExistingStoreInit ==
    /\ google_api_key \in BOOLEAN
    /\ now = 0
    /\ ad_requests =
          { observation_row(StoredCall, StoredCall.country_code,
                            detect_vpn_proxy(StoredCall.ip_address)) }
    /\ location_history = << with_id(location_row(StoredCall), 1) >>
    /\ behavior_patterns =
          [a \in AdIds |->
              IF a = StoredCall.advertising_id
              THEN inserted_row(a, StoredCall.timestamp,
                                StoredCall.country_code,
                                StoredCall.ip_address)
              ELSE None]
    /\ writer = NoConn
    /\ calls = [c \in Invocations |-> IdleCall]
    /\ frames = [f \in Invocations |-> IdleFrame]
    /\ direct_call = IdleDirect

\* The calls of process_ad_request on that file: the address of the stored
\* observation with and without signals, and an address int() refuses.
StoreCallInputs ==
    { << StoredCall.ip_address, None >>,
      << StoredCall.ip_address, StoredCall.environment_signals >>,
      << <<Junk, Oct(1), Oct(1), Oct(1)>>, None >> }

\* The two clock readings of a call, <<line 118, line 171>>: the reading of
\* the stored request id among them, and a clock that was set back.
StoreClocks == { <<0, 0>>, <<1, 1>>, <<2, 2>>, <<2, 0>> }

\* The criteria of find_similar_devices on that file: the country of the
\* stored observation.
StoreSimilarInputs == { << <<>>, StoredCall.country_code >> }

\* process_ad_request, _update_behavior_patterns, get_device_history and
\* find_similar_devices, called by clients of a tracker constructed on that
\* file.
ExistingStoreNext ==
    \/ \E c \in Invocations, a \in AdIds, in \in StoreCallInputs,
             clock \in StoreClocks :
          Begin(c, a, in[1], in[2], clock[1], clock[2])
    \/ \E c \in Invocations, o \in GeoOutcomes : GeoRespond(c, o)
    \/ \E c \in Invocations : HeuristicsRaise(c)
    \/ \E c \in Invocations : StoreObservation(c)
    \/ \E c \in Invocations : StoreBusy(c)
    \/ \E u \in Invocations, a \in AdIds, t \in Times, in \in UpdateInputs :
          CallUpdate(u, a, t, in[1], in[2])
    \/ \E f \in Invocations : UpdSelect(f)
    \/ \E f \in Invocations : UpdFetch(f)
    \/ \E f \in Invocations : UpdWrite(f)
    \/ \E f \in Invocations : UpdCommit(f)
    \/ \E f \in Invocations : UpdCommitWait(f)
    \/ \E k \in Invocations : Unwind(k)
    \/ \E a \in AdIds : GetDeviceHistory(a)
    \/ DeviceHistoryFetch
    \/ \E in \in StoreSimilarInputs : FindSimilarDevices(in[1], in[2])
    \/ SimilarDevicesFetch

ExistingStoreSpec == ExistingStoreInit /\ [][ExistingStoreNext]_vars

\* Clients call one heuristic, or geolocate_with_signals, on its own.
DirectNext ==
    \/ \E ip \in DirectIPs : EstimateCountry(ip)
    \/ \E ip \in DirectIPs : DetectVpnProxy(ip)
    \/ \E signals \in DirectSignals : Geolocate(signals)
    \/ \E o \in GeoOutcomes : GeolocateRespond(o)

DirectSpec == Init /\ [][DirectNext]_vars


\* ------------------------------------------------------------------ claims
WellFormed(ip) == heuristics_raise(ip) = ""
Ended(c) == calls[c].pc \in {"raised", "returned"}
\* Call c executed its INSERT into ad_requests (and then called line 237).
WroteObservation(c) == IsCall(c) /\ frames[c].pc # "idle"
\* The calls of process_ad_request for id a that wrote their observation and
\* have ended.
Observed(a) ==
    { c \in Invocations : /\ calls[c].advertising_id = a
                          /\ WroteObservation(c)
                          /\ Ended(c) }
ObservationsOf(a) == { r \in ad_requests : r.advertising_id = a }
MaxOf(S) == CHOOSE m \in S : \A n \in S : n <= m

\* _update_behavior_patterns was called for id a by a client, not by
\* process_ad_request.
DirectlyUpdated(a) ==
    \E f \in Invocations :
        ~IsCall(f) /\ frames[f].pc # "idle" /\ frames[f].advertising_id = a

\* C1: each advertising id, seen through process_ad_request alone, has a
\* profile row exactly when an observation of it is recorded, the row's
\* total_requests is the number of its observation rows, and N observations
\* processed for a new id leave total_requests = N.
C1_ProfileCountsObservations ==
    \A a \in AdIds :
        ~DirectlyUpdated(a) =>
           /\ (behavior_patterns[a] # None) <=> (ObservationsOf(a) # {})
           /\ behavior_patterns[a] # None =>
                 behavior_patterns[a].total_requests = Cardinality(ObservationsOf(a))
           /\ Observed(a) # {} =>
                 /\ behavior_patterns[a] # None
                 /\ behavior_patterns[a].total_requests = Cardinality(Observed(a))

\* The step in which the update of frame f, which read an existing profile,
\* finishes (by returning or by raising).
UpdateOfExistingFinishes(f) ==
    /\ frames[f].pc \in {"write", "commit", "committing"}
    /\ frames[f].existing # None
    /\ frames'[f].pc \notin {"write", "commit", "committing"}

\* C2: an update for an id that has a profile leaves first_seen as it was,
\* last_seen at the new timestamp, and both sets grown by the new country
\* code and the new two-octet prefix.
C2_UpdateKeepsFirstSeenAndUnions ==
    [][ \A f \in Invocations :
          UpdateOfExistingFinishes(f) =>
             LET old == behavior_patterns[frames[f].advertising_id]
                 new == behavior_patterns'[frames[f].advertising_id]
             IN  /\ new.first_seen = old.first_seen
                 /\ new.last_seen = DateTime(frames[f].timestamp)
                 /\ new.common_countries.tokens =
                       old.common_countries.tokens
                          \cup {CountryToken(frames[f].country_code)}
                 /\ new.common_ip_prefixes.tokens =
                       old.common_ip_prefixes.tokens
                          \cup {PrefixToken(frames[f].ip_address)} ]_vars

\* C3: an update for an id that has a profile stores the average
\* (old total + 1) / (d + 1), d the whole days from the stored first_seen to
\* the new timestamp.
C3_AverageFromFirstSeen ==
    [][ \A f \in Invocations :
          UpdateOfExistingFinishes(f) =>
             LET old == behavior_patterns[frames[f].advertising_id]
                 new == behavior_patterns'[frames[f].advertising_id]
                 d == Days(frames[f].timestamp, old.first_seen.t)
             IN  /\ d + 1 # 0
                 /\ new.avg_requests_per_day.den # 0
                 /\ new.avg_requests_per_day.num * (d + 1) =
                       (old.total_requests + 1) * new.avg_requests_per_day.den ]_vars

InReadModifyWrite(f) ==
    frames[f].pc \in {"fetch", "write", "commit", "committing"}

\* C5: of the process_ad_request calls running at a time at most one is in
\* the read-modify-write of a given id's profile, and the total_requests of
\* an id (seen through process_ad_request alone) is the number of its rows
\* of ad_requests: each recorded observation counts once.
C5_SerializedUpdatesCountAll ==
    /\ \A f, g \in Invocations :
          ( /\ f # g
            /\ IsCall(f) /\ IsCall(g)
            /\ InReadModifyWrite(f) /\ InReadModifyWrite(g) )
             => frames[f].advertising_id # frames[g].advertising_id
    /\ \A a \in AdIds :
          ~DirectlyUpdated(a) =>
             (IF behavior_patterns[a] = None THEN 0
              ELSE behavior_patterns[a].total_requests)
                = Cardinality(ObservationsOf(a))

\* Two calls for one id run at a time: one is in its read-modify-write, the
\* other has not written yet.
C5_Witness ==
    \E f, g \in Invocations :
        /\ f # g
        /\ IsCall(f) /\ InReadModifyWrite(f)
        /\ calls[g].pc = "store"
        /\ calls[g].advertising_id = calls[f].advertising_id
        /\ WellFormed(calls[g].ip_address)

\* C6: when the profile update fails after the observation was written, the
\* caller sees the failure and the observation row stays in the store.
C6_ObservationSurvivesUpdateFailure ==
    \A c \in Invocations :
        (calls[c].pc = "raised" /\ frames[c].pc = "raised") =>
           /\ calls[c].exc # ""
           /\ \E r \in ad_requests : r.request_id = calls[c].request_id

\* The INSERT of line 191 was executed for call c.
InsertRan(c) ==
    /\ calls[c].pc \in {"in_update", "unwinding", "raised", "returned"}
    /\ WellFormed(calls[c].ip_address)
    /\ ~(calls[c].exc = "OperationalError" /\ frames[c].pc = "idle")

RowsWithId(request_id) == { r \in ad_requests : r.request_id = request_id }

\* C7: a call whose INSERT meets its request id in ad_requests raises
\* IntegrityError to its caller; the table still holds the one row of that
\* id, and the call writes no row of ad_requests or location_history and
\* makes no profile update: no step of it changes a table.
C7_DuplicateIdRejected ==
    /\ [](\A c \in Invocations :
            (InsertRan(c) /\ RowsWithId(calls[c].request_id) # {}) =>
               /\ calls[c].exc = "IntegrityError"
               /\ calls[c].pc \in {"unwinding", "raised"}
               /\ frames[c].pc = "idle"
               /\ calls[c].txn_obs = None
               /\ calls[c].txn_loc = None
               /\ Cardinality(RowsWithId(calls[c].request_id)) = 1)
    /\ [][ \A c \in Invocations :
             (calls'[c] # calls[c] /\ calls'[c].exc = "IntegrityError") =>
                /\ ad_requests' = ad_requests
                /\ location_history' = location_history
                /\ behavior_patterns' = behavior_patterns ]_vars

\* A call whose request id the table held has raised IntegrityError.
C7_Witness ==
    \E c \in Invocations :
        /\ calls[c].pc = "raised"
        /\ calls[c].exc = "IntegrityError"
        /\ Cardinality(RowsWithId(calls[c].request_id)) = 1

\* The geolocation request of call c was posted and gave no estimate.
GeolocationFailed(c) ==
    calls[c].net_requests = 1 /\ calls[c].geolocation_data = None

\* C8: when the geolocation request fails, the call still records the
\* observation with null location fields, updates the profile and returns a
\* result without geolocation.
C8_GeolocationFailureAbsorbed ==
    \A c \in Invocations :
        (Ended(c) /\ GeolocationFailed(c) /\ WellFormed(calls[c].ip_address)
           /\ \A d \in Invocations : d = c \/ ~Started(d)) =>
           /\ calls[c].pc = "returned"
           /\ \E r \in ad_requests :
                 /\ r.request_id = calls[c].request_id
                 /\ r.estimated_lat = None
                 /\ r.estimated_lng = None
                 /\ r.accuracy_radius = None
           /\ behavior_patterns[calls[c].advertising_id] # None

\* The rows of location_history that name request id.
LocationRowsOf(request_id) ==
    { i \in DOMAIN location_history :
         location_history[i].request_id = request_id }

C10_EndToEndScenario ==
    \A c \in Invocations :
        ( /\ Ended(c)
          /\ calls[c].advertising_id = "AID-1"
          /\ calls[c].ip_address = <<Oct(192), Oct(168), Oct(1), Oct(100)>>
          /\ calls[c].environment_signals = None
          /\ \A d \in Invocations : d = c \/ ~Started(d) ) =>
           /\ calls[c].pc = "returned"
           /\ calls[c].country_code = "EU"
           /\ ~calls[c].is_vpn
           /\ calls[c].geolocation_data = None
           /\ behavior_patterns["AID-1"] # None
           /\ behavior_patterns["AID-1"].total_requests = 1

\* The address splits into four parts and int() accepts each.
FourIntegerOctets(ip) == Len(ip) = 4 /\ \A i \in 1..4 : IsInt(ip[i])
\* The band of section 4.2 for a first octet.
BandOf(o) ==
    IF o \in 1..126 THEN "US"
    ELSE IF o \in 128..191 THEN "EU"
    ELSE IF o \in 192..223 THEN "ASIA"
    ELSE "UNKNOWN"

\* C11: for an address of four integer octets _estimate_country_from_ip
\* returns the band of the first octet alone: US for 1-126, EU for 128-191,
\* ASIA for 192-223, UNKNOWN for every other one.
C11_CountryFromFirstOctet ==
    ( /\ direct_call.fn = "_estimate_country_from_ip"
      /\ FourIntegerOctets(direct_call.ip_address) ) =>
       /\ direct_call.pc = "returned"
       /\ direct_call.returned = [v |-> BandOf(direct_call.ip_address[1].v)]

\* The call was made on 127.255.255.255 and returned UNKNOWN.
C11_Witness ==
    /\ direct_call.fn = "_estimate_country_from_ip"
    /\ direct_call.ip_address = <<Oct(127), Oct(255), Oct(255), Oct(255)>>
    /\ direct_call.returned = [v |-> "UNKNOWN"]

\* C12: for an address that is no four integer octets
\* _estimate_country_from_ip raises, and returns no label.
C12_MalformedAddressRejected ==
    ( /\ direct_call.fn = "_estimate_country_from_ip"
      /\ ~FourIntegerOctets(direct_call.ip_address) ) =>
       /\ direct_call.pc = "raised"
       /\ direct_call.exc # ""
       /\ direct_call.returned = None

\* The address lies in 192.0.2.0/24, 198.18.0.0/15 or 100.64.0.0/10 (octets
\* within 0..255).
InReservedRange(ip) ==
    \/ ip[1].v = 192 /\ ip[2].v = 0 /\ ip[3].v = 2
    \/ ip[1].v = 198 /\ ip[2].v \in 18..19
    \/ ip[1].v = 100 /\ ip[2].v \in 64..127

\* C13: the VPN flag a call computes is true exactly for an address in the
\* three reserved ranges, and the call returns it in its result: true for
\* 198.18.5.5.
C13_VpnFlagInResult ==
    \A c \in Invocations :
        ( /\ Ended(c)
          /\ FourIntegerOctets(calls[c].ip_address)
          /\ \A d \in Invocations : d = c \/ ~Started(d) ) =>
           /\ calls[c].is_vpn <=> InReservedRange(calls[c].ip_address)
           /\ calls[c].pc = "returned"

\* All three lists of the signals are empty.
NoSignals(signals) == signals.wifi = 0 /\ signals.cell = 0 /\ signals.bt = 0

\* C14: geolocate_with_signals posts at most one request, and none unless a
\* credential is configured and some list is non-empty; with a credential and
\* three empty lists it returns None without a request.
C14_NoRequestWithoutSignals ==
    direct_call.fn = "geolocate_with_signals" =>
       /\ direct_call.net_requests <= 1
       /\ direct_call.net_requests = 1 =>
             (google_api_key /\ ~NoSignals(direct_call.environment_signals))
       /\ (google_api_key /\ NoSignals(direct_call.environment_signals)) =>
             /\ direct_call.pc = "returned"
             /\ direct_call.returned = [v |-> None]
             /\ direct_call.net_requests = 0

\* The call was made with a credential and three empty lists, and returned.
C14_Witness ==
    /\ direct_call.fn = "geolocate_with_signals"
    /\ google_api_key
    /\ NoSignals(direct_call.environment_signals)
    /\ direct_call.pc = "returned"

\* C15: the profile update a call makes is never refused the writer lock,
\* and a call with a well-formed address, made on its own (so its request id
\* is new), ends by returning, with its observation row and the profile
\* committed.
C15_CallCompletesAndCommits ==
    /\ \A c \in Invocations :
          IsCall(c) => frames[c].exc # "OperationalError"
    /\ \A c \in Invocations :
          ( /\ Ended(c)
            /\ WellFormed(calls[c].ip_address)
            /\ \A d \in Invocations : d = c \/ ~Started(d) ) =>
             /\ calls[c].pc = "returned"
             /\ \E r \in ad_requests : r.request_id = calls[c].request_id
             /\ behavior_patterns[calls[c].advertising_id] # None

\* C16: an update that read an existing profile divides by at least 1, and
\* so never raises ZeroDivisionError.
C16_AverageDivisorPositive ==
    \A f \in Invocations :
        (frames[f].pc \notin {"idle", "select"} /\ frames[f].existing # None) =>
           /\ avg_divisor(frames[f].existing, frames[f].timestamp) >= 1
           /\ frames[f].exc # "ZeroDivisionError"

=============================================================================
